---- MODULE Spec2Model ----
(***************************************************************************)
(* A model of the branch-and-bound best-first search engine of the         *)
(* superpermutation finder: Bounds (src/bounds/mod.rs), Candidate          *)
(* (src/candidate/mod.rs) and Frontier (src/frontier/mod.rs).              *)
(***************************************************************************)
EXTENDS Integers, Sequences, FiniteSets, TLC

VARIABLES
    lower_bounds,     \* Bounds.lower_bounds : Vec<usize>, a function on 0..len-1
    upper_bounds,     \* Bounds.upper_bounds : Vec<usize>
    thresholds,       \* Bounds.thresholds   : Vec<usize>
    overflow_checks,  \* whether the build panics on usize overflow (debug) or wraps
    call,             \* the last Bounds::update call: its arguments and how it ended
    n,                \* the alphabet size handed to Candidate and Frontier
    priority_queue,   \* Frontier.priority_queue : waste -> permutations -> deque
    removed,          \* what the last Frontier::next returned (None when empty)
    found,            \* the driver loop has removed a candidate with n! permutations
    exhausted,        \* the driver loop has seen Frontier::next return None
    walker,           \* a candidate reached from Candidate::seed(n) by expand steps
    via               \* the expand call that produced walker: its parent and arguments,
                      \* and whether every call before it had the same upper_bound

vars == <<lower_bounds, upper_bounds, thresholds, overflow_checks, call,
          n, priority_queue, removed, found, exhausted, walker, via>>

boundsVars == <<lower_bounds, upper_bounds, thresholds, overflow_checks, call>>
searchVars == <<n, priority_queue, removed, found, exhausted, walker, via>>

\* Option<T>: None, and Some(x)
None == <<>>
Some(x) == <<x>>

(***************************************************************************)
(* Bounds of the model.                                                    *)
(***************************************************************************)
\* usize is modelled UsizeBits wide, so that its overflow is within reach.
UsizeBits == 2
\* Bounds::update is called with index in 0..MaxIndex and bound in 0..MaxBound.
MaxIndex == 2
MaxBound == 2
\* The search is followed while the waste stays within MaxWaste.
MaxWaste == 2
\* The frontier holds at most MaxHeld candidates when fed arbitrary ones.
MaxHeld == 3
\* The alphabet sizes the search is run for.
Ns == {2, 3}
\* The alphabet sizes expand is followed for on its own.
WalkNs == {2, 3, 4, 5}
\* The ceilings handed to expand: 0 .. MaxCeiling, and n! (no ceiling in the way).
MaxCeiling == 3
\* The descendants of a candidate are followed for MaxDepth expand steps.
MaxDepth == 2

Min(a, b) == IF a < b THEN a ELSE b

\* std::cmp::max
max(a, b) == IF a < b THEN b ELSE a

\* std::usize::MAX
MAX == 2 ^ UsizeBits - 1

(***************************************************************************)
(* Vec<usize>: a function on 0..len-1.                                     *)
(***************************************************************************)
VecLen(v) == Cardinality(DOMAIN v)

\* Vec::resize(new_len, value), growing or truncating
resize(v, new_len, value) ==
    [i \in 0 .. new_len - 1 |-> IF i < VecLen(v) THEN v[i] ELSE value]

(***************************************************************************)
(* Candidate.                                                              *)
(***************************************************************************)
RECURSIVE factorial(_)
factorial(k) == IF k <= 1 THEN 1 ELSE k * factorial(k - 1)

\* Lehmer::from_permutation(p).to_decimal(): digit i counts the later elements
\* smaller than p[i], and weighs (len - i)! (i from 1).
RECURSIVE to_decimal(_, _)
to_decimal(p, i) ==
    IF i > Len(p) THEN 0
    ELSE Cardinality({j \in i + 1 .. Len(p) : p[j] < p[i]}) * factorial(Len(p) - i)
         + to_decimal(p, i + 1)

\* Candidate::append
append(slice, symbol) == slice \o <<symbol>>

\* Candidate::permutation_id
permutation_id(tail_of_string, symbol) ==
    to_decimal(append(tail_of_string, symbol), 1)

\* Candidate::seed
seed(nn) ==
    [permutations_seen |-> {0},
     tail_of_string |-> [i \in 1 .. nn - 1 |-> i],
     wasted_symbols |-> 0]

\* Candidate::number_of_permutations
number_of_permutations(c) == Cardinality(c.permutations_seen)

\* Candidate::future_waste without the - 1
future_waste_of_whole_string(c, nn) == nn - Len(c.tail_of_string)

\* Candidate::future_waste
future_waste(c, nn) == nn - Len(c.tail_of_string) - 1

\* Candidate::total_waste leaving out the symbols already wasted
total_waste_of_future_only(c, nn) == future_waste(c, nn)

\* Candidate::total_waste
total_waste(c, nn) == c.wasted_symbols + future_waste(c, nn)

\* Candidate::less_than_full
less_than_full(tail_of_string, nn) == Len(tail_of_string) < nn - 1

\* Candidate::tail_starts_with
tail_starts_with(c, symbol) == symbol = c.tail_of_string[1]

\* head.iter().position(|&e| e == symbol): <<index>> (from 0) for Some(index),
\* <<>> for None
position(head, symbol) ==
    IF \E i \in 1 .. Len(head) : head[i] = symbol
    THEN <<(CHOOSE i \in 1 .. Len(head) :
               /\ head[i] = symbol
               /\ \A j \in 1 .. i - 1 : head[j] # symbol) - 1>>
    ELSE <<>>

\* Candidate::build_tail that never looks for the symbol in the head
build_tail_without_position(c, symbol, nn) ==
    LET head == c.tail_of_string
        index == IF less_than_full(head, nn) THEN 0 ELSE 1
    IN  append(SubSeq(head, index + 1, Len(head)), symbol)

\* Candidate::build_tail keeping the whole head whenever the symbol is not in it
build_tail_keeping_head(c, symbol, nn) ==
    LET head == c.tail_of_string
        index == IF position(head, symbol) # <<>>
                 THEN position(head, symbol)[1] + 1
                 ELSE 0
    IN  append(SubSeq(head, index + 1, Len(head)), symbol)

\* Candidate::build_tail
build_tail(c, symbol, nn) ==
    LET head == c.tail_of_string
        index == IF position(head, symbol) # <<>>
                 THEN position(head, symbol)[1] + 1
                 ELSE IF less_than_full(head, nn) THEN 0 ELSE 1
    IN  append(SubSeq(head, index + 1, Len(head)), symbol)

\* Candidate::seen_next_tail_as_well answering false whatever has been seen
seen_next_tail_never(c, tail_of_string, nn) == FALSE

\* Candidate::seen_next_tail_as_well
seen_next_tail_as_well(c, tail_of_string, nn) ==
    LET symbols_in_tail ==
            [symbol \in 0 .. nn - 1 |->
                \E i \in 1 .. Len(tail_of_string) : tail_of_string[i] = symbol]
        absent == {symbol \in 0 .. nn - 1 : ~symbols_in_tail[symbol]}
    IN  IF absent = {} THEN FALSE
        ELSE LET symbol == CHOOSE x \in absent : \A y \in absent : x <= y
             IN  permutation_id(tail_of_string, symbol) \in c.permutations_seen

\* Candidate::candidate_with_wasted_symbol forgetting what the parent wasted
candidate_with_wasted_symbol_forgetting(c, tail_of_string, penalty) ==
    [permutations_seen |-> c.permutations_seen,
     tail_of_string |-> tail_of_string,
     wasted_symbols |-> penalty - 1]

\* Candidate::candidate_with_wasted_symbol
candidate_with_wasted_symbol(c, tail_of_string, penalty) ==
    [permutations_seen |-> c.permutations_seen,
     tail_of_string |-> tail_of_string,
     wasted_symbols |-> c.wasted_symbols + penalty]

\* Candidate::candidate_with_new_permutation starting from an empty BitSet
\* instead of a clone of the parent's
candidate_with_only_new_permutation(c, tail_of_string, id) ==
    [permutations_seen |-> {id},
     tail_of_string |-> tail_of_string,
     wasted_symbols |-> c.wasted_symbols]

\* Candidate::candidate_with_new_permutation
candidate_with_new_permutation(c, tail_of_string, id) ==
    [permutations_seen |-> c.permutations_seen \cup {id},
     tail_of_string |-> tail_of_string,
     wasted_symbols |-> c.wasted_symbols]

\* Candidate::expand_one without the return for at_upper_bound
expand_one_past_upper_bound(c, symbol, at_upper_bound, nn) ==
    LET tail_of_string == build_tail(c, symbol, nn)
        id == permutation_id(c.tail_of_string, symbol)
    IN  IF less_than_full(c.tail_of_string, nn)
        THEN candidate_with_wasted_symbol(c, tail_of_string, 1)
        ELSE IF less_than_full(tail_of_string, nn)
        THEN candidate_with_wasted_symbol(c, tail_of_string, 1)
        ELSE IF tail_starts_with(c, symbol)
        THEN candidate_with_wasted_symbol(c, tail_of_string, 1)
        ELSE IF id \in c.permutations_seen
        THEN candidate_with_wasted_symbol(c, tail_of_string,
                 IF seen_next_tail_as_well(c, tail_of_string, nn) THEN 2 ELSE 1)
        ELSE candidate_with_new_permutation(c, tail_of_string, id)

\* Candidate::expand_one
expand_one(c, symbol, at_upper_bound, nn) ==
    LET tail_of_string == build_tail(c, symbol, nn)
        id == permutation_id(c.tail_of_string, symbol)
    IN  IF less_than_full(c.tail_of_string, nn)
        THEN candidate_with_wasted_symbol(c, tail_of_string, 1)
        ELSE IF less_than_full(tail_of_string, nn)
        THEN candidate_with_wasted_symbol(c, tail_of_string, 1)
        ELSE IF tail_starts_with(c, symbol)
        THEN candidate_with_wasted_symbol(c, tail_of_string, 1)
        ELSE IF at_upper_bound
        THEN candidate_with_wasted_symbol(c, tail_of_string, 1)
        ELSE IF id \in c.permutations_seen
        THEN candidate_with_wasted_symbol(c, tail_of_string,
                 IF seen_next_tail_as_well(c, tail_of_string, nn) THEN 2 ELSE 1)
        ELSE candidate_with_new_permutation(c, tail_of_string, id)

\* Candidate::expand filtering with s < last_symbol where the code has s != last_symbol
expand_symbols_below_last(c, nn) ==
    LET last_symbol == c.tail_of_string[Len(c.tail_of_string)]
    IN  {s \in 0 .. nn - 1 : s < last_symbol}

\* the symbols Candidate::expand maps over: (0..n).filter(|&s| s != last_symbol)
expand_symbols(c, nn) ==
    LET last_symbol == c.tail_of_string[Len(c.tail_of_string)]
    IN  {s \in 0 .. nn - 1 : s # last_symbol}

\* Candidate::expand: the children, in the order of their symbols
RECURSIVE expand_from(_, _, _, _)
expand_from(c, s, upper_bound, nn) ==
    IF s >= nn THEN <<>>
    ELSE (IF s \in expand_symbols(c, nn)
          THEN <<expand_one(c, s, number_of_permutations(c) = upper_bound, nn)>>
          ELSE <<>>) \o expand_from(c, s + 1, upper_bound, nn)

expand(c, upper_bound, nn) == expand_from(c, 0, upper_bound, nn)

\* The candidates reached from c by 1 .. depth expand steps, each step with a
\* ceiling that c has reached (at_upper_bound) or has not.
RECURSIVE descendants(_, _, _)
descendants(c, depth, nn) ==
    IF depth = 0 THEN {}
    ELSE LET children == {expand_one(c, symbol, at_upper_bound, nn) :
                             symbol \in expand_symbols(c, nn),
                             at_upper_bound \in BOOLEAN}
         IN  children \cup UNION {descendants(child, depth - 1, nn) :
                                     child \in children}

\* The upper_bound arguments expand is called with.
Ceilings(nn) == {c \in 0 .. factorial(nn) : c <= MaxCeiling \/ c = factorial(nn)}

\* A shortest superpermutation on 4 symbols, 0123 0120 3120 1320 1023 1021 3021
\* 0321 0, after the 0123 that Candidate::seed(4) stands for.
Shortest4 ==
    <<0, 1, 2, 0, 3, 1, 2, 0, 1, 3, 2, 0, 1, 0, 2, 3, 1, 0, 2, 1, 3, 0, 2, 1, 0,
      3, 2, 1, 0>>

\* The candidate reached from seed(4) by expanding with the first k symbols of
\* Shortest4, the ceiling being 4! throughout.
RECURSIVE Replay(_)
Replay(k) ==
    IF k = 0 THEN seed(4)
    ELSE LET parent == Replay(k - 1)
         IN  expand_one(parent, Shortest4[k],
                        number_of_permutations(parent) = factorial(4), 4)

Lineage == {Replay(k) : k \in 0 .. Len(Shortest4)}

(***************************************************************************)
(* Bounds.  The methods are operators on a record b of the three vectors   *)
(* and `fault`, the first usize overflow of the call ("none" before it).   *)
(* With overflow checks (a debug build) the overflowing expression panics: *)
(* the method stops there, after the assignments that precede it.  Without *)
(* them (a release build) the value wraps and the method goes on.          *)
(***************************************************************************)
\* Bounds::new
new ==
    [lower_bounds |-> (0 :> 0), upper_bounds |-> (0 :> MAX),
     thresholds |-> (0 :> 0), fault |-> "none"]

\* the call has panicked: nothing more of it runs
panicked(b, checks) == checks /\ b.fault # "none"

\* the first fault of a call is the one recorded
faulted(b, fault) == IF b.fault = "none" THEN [b EXCEPT !.fault = fault] ELSE b

\* Bounds::increase_lower_bound
increase_lower_bound(b, checks, index, bound) ==
    IF panicked(b, checks) THEN b
    ELSE LET lb == [b.lower_bounds EXCEPT ![index] = bound]
             b1 == [b EXCEPT !.lower_bounds = lb]
         IN  IF bound < lb[0]
             THEN IF checks
                  THEN faulted(b1, "underflow")
                  ELSE [faulted(b1, "underflow") EXCEPT
                            !.thresholds[index] = (bound - lb[0]) % (MAX + 1)]
             ELSE [b1 EXCEPT !.thresholds[index] = bound - lb[0]]

\* Bounds::fix_upper_bound
fix_upper_bound(b, checks, index) ==
    IF panicked(b, checks) THEN b
    ELSE [b EXCEPT !.upper_bounds[index] = b.lower_bounds[index]]

\* Bounds::decrease_upper_bound
decrease_upper_bound(b, checks, index) ==
    IF panicked(b, checks) THEN b
    ELSE LET sum == b.lower_bounds[index] + b.upper_bounds[0]
         IN  IF sum > MAX
             THEN IF checks
                  THEN faulted(b, "overflow")
                  ELSE [faulted(b, "overflow") EXCEPT
                            !.upper_bounds[index] = sum % (MAX + 1)]
             ELSE [b EXCEPT !.upper_bounds[index] = sum]

\* for i in from..=to { self.increase_lower_bound(i, bound) }
RECURSIVE increase_lower_bounds(_, _, _, _, _)
increase_lower_bounds(b, checks, from, to, bound) ==
    IF from > to THEN b
    ELSE increase_lower_bounds(increase_lower_bound(b, checks, from, bound),
                               checks, from + 1, to, bound)

\* for i in from..to { self.fix_upper_bound(i) }
RECURSIVE fix_upper_bounds(_, _, _, _)
fix_upper_bounds(b, checks, from, to) ==
    IF from >= to THEN b
    ELSE fix_upper_bounds(fix_upper_bound(b, checks, from), checks, from + 1, to)

\* Bounds::add_new_index
add_new_index(b, checks, index, bound) ==
    LET previous_len == VecLen(b.lower_bounds)
        last_bound == b.lower_bounds[previous_len - 1]
        b1 == [b EXCEPT !.lower_bounds = resize(@, index + 1, 0),
                        !.upper_bounds = resize(@, index + 1, MAX),
                        !.thresholds = resize(@, index + 1, 0)]
        b2 == increase_lower_bounds(b1, checks, previous_len, index,
                                    max(bound, last_bound))
        b3 == fix_upper_bounds(b2, checks, previous_len - 1, index)
    IN  decrease_upper_bound(b3, checks, index)

\* Bounds::update: the ledger after the call and what the call returned
\* ("panic" when it did not return).
update(b, checks, index, bound) ==
    LET after == IF VecLen(b.lower_bounds) <= index
                 THEN add_new_index(b, checks, index, bound)
                 ELSE IF b.lower_bounds[index] < bound
                      THEN increase_lower_bound(b, checks, index, bound)
                      ELSE b
        ret == IF panicked(after, checks) THEN "panic"
               ELSE IF VecLen(b.lower_bounds) <= index THEN "true"
               ELSE IF b.lower_bounds[index] < bound THEN "true"
               ELSE "false"
    IN  [bounds |-> after, ret |-> ret]

\* The ledger held in the variables, as a call finds it.
self == [lower_bounds |-> lower_bounds, upper_bounds |-> upper_bounds,
         thresholds |-> thresholds, fault |-> "none"]

\* `call` before the first call
NoCall ==
    [index |-> 0, bound |-> 0, ret |-> "none", fault |-> "none",
     extended |-> FALSE]

InitBounds ==
    /\ lower_bounds = new.lower_bounds
    /\ upper_bounds = new.upper_bounds
    /\ thresholds = new.thresholds
    /\ overflow_checks \in BOOLEAN
    /\ call = NoCall

\* One call of Bounds::update(index, bound).  A panic ends the process.
Update(index, bound) ==
    /\ call.ret # "panic"
    /\ LET r == update(self, overflow_checks, index, bound)
       IN  /\ lower_bounds' = r.bounds.lower_bounds
           /\ upper_bounds' = r.bounds.upper_bounds
           /\ thresholds' = r.bounds.thresholds
           /\ call' = [index |-> index, bound |-> bound, ret |-> r.ret,
                       fault |-> r.bounds.fault,
                       extended |-> VecLen(lower_bounds) <= index]
    /\ UNCHANGED overflow_checks

\* The search engine is not run beside the ledger.
IdleSearch ==
    /\ n = 2
    /\ priority_queue = <<>>
    /\ removed = None
    /\ found = FALSE
    /\ exhausted = FALSE
    /\ walker = seed(n)
    /\ via = None

NextBounds ==
    /\ \E index \in 0 .. MaxIndex, bound \in 0 .. Min(MaxBound, MAX) :
          Update(index, bound)
    /\ UNCHANGED searchVars

InitLedger == InitBounds /\ IdleSearch

SpecBounds == InitLedger /\ [][NextBounds]_vars

\* Bounds::lower_bounds[count] and Bounds::upper_bounds[count], the point queries
lowerBound(count) == lower_bounds[count]
upperBound(count) == upper_bounds[count]

\* the indices the ledger tracks
Tracked == DOMAIN lower_bounds

(***************************************************************************)
(* Claims about Bounds, under SpecBounds.  C4, C5 and C6 are stated for    *)
(* the build with overflow checks, in which no stored value has ever       *)
(* wrapped, so that a violation shows the ledger's policy and rests on no  *)
(* wrapped arithmetic.                                                     *)
(***************************************************************************)

\* C4: after any sequence of update calls on a fresh ledger the stored lower
\* bounds are non-decreasing in index: lowerBound(i) <= lowerBound(j) for all
\* tracked i < j.
C4_LowerBoundsNonDecreasing ==
    (overflow_checks /\ call.ret # "panic") =>
        \A i, j \in Tracked : i < j => lowerBound(i) <= lowerBound(j)

\* C5: whenever update(count, value) extends the tracked range, after the call
\* upperBound(count) = lowerBound(count) + lowerBound(0).
C5_UpperIsLowerPlusLowerZero ==
    (overflow_checks /\ call.extended /\ call.ret = "true") =>
        upperBound(call.index) = lowerBound(call.index) + lowerBound(0)

\* C6: bounds only tighten: from one call to the next no tracked lower bound
\* decreases and no tracked upper bound increases.
C6_BoundsOnlyTighten ==
    [][overflow_checks =>
          \A i \in Tracked : /\ lower_bounds'[i] >= lower_bounds[i]
                              /\ upper_bounds'[i] <= upper_bounds[i]]_vars

\* C7: every update call completes normally: the threshold computation
\* value - lowerBound(0) never goes below zero.  (The claim's second half, that
\* the upper-bound sum never overflows, is C7_NoOverflow.)
C7_NoUnderflow == call.fault # "underflow"

\* C7, second half: lowerBound(index) + upperBound(0) never exceeds usize::MAX.
C7_NoOverflow == call.fault # "overflow"

\* C8: for a tracked index, update(count, value) with value <= the stored lower
\* bound returns false and changes no table; with value > the stored lower bound
\* it returns true and lowerBound(count) = value afterwards.
C8_IdempotentOrTightens ==
    [][(call'.ret # "none" /\ ~call'.extended) =>
          IF call'.bound <= lower_bounds[call'.index]
          THEN /\ call'.ret = "false"
               /\ UNCHANGED <<lower_bounds, upper_bounds, thresholds>>
          ELSE /\ call'.ret = "true"
               /\ lower_bounds'[call'.index] = call'.bound]_vars

\* C8 in the build without overflow checks, where no call panics.
C8_IdempotentOrTightensWrapping ==
    [][(~overflow_checks /\ call'.ret # "none" /\ ~call'.extended) =>
          IF call'.bound <= lower_bounds[call'.index]
          THEN /\ call'.ret = "false"
               /\ UNCHANGED <<lower_bounds, upper_bounds, thresholds>>
          ELSE /\ call'.ret = "true"
               /\ lower_bounds'[call'.index] = call'.bound]_vars

(***************************************************************************)
(* Frontier.  priority_queue is the BucketQueue of BucketQueues of deques: *)
(* a function from the waste levels in use to functions from the           *)
(* permutation counts in use to non-empty sequences of candidates.         *)
(***************************************************************************)
\* Frontier::new
EmptyQueue == <<>>

\* a bucket queue without priority p
without(q, p) == [k \in DOMAIN q \ {p} |-> q[k]]

\* a bucket queue with bucket b at priority p
with(q, p, b) == [k \in DOMAIN q \cup {p} |-> IF k = p THEN b ELSE q[k]]

\* BucketQueue::bucket_for_adding: the bucket at a priority, empty when new
bucket_for_adding(q, p) == IF p \in DOMAIN q THEN q[p] ELSE <<>>

\* BucketQueue::min_priority and max_priority of a non-empty queue
min_priority(q) == CHOOSE p \in DOMAIN q : \A k \in DOMAIN q : p <= k
max_priority(q) == CHOOSE p \in DOMAIN q : \A k \in DOMAIN q : p >= k

\* Frontier::min_waste (of a non-empty frontier)
min_waste(pq) == min_priority(pq)

\* Frontier::add
add(pq, candidate, nn) ==
    LET permutations == number_of_permutations(candidate)
        waste == total_waste(candidate, nn)
        bucket == bucket_for_adding(pq, waste)
        deque == bucket_for_adding(bucket, permutations)
    IN  with(pq, waste, with(bucket, permutations, Append(deque, candidate)))

\* a sequence without its i-th element
RemoveAt(seq, i) == SubSeq(seq, 1, i - 1) \o SubSeq(seq, i + 1, Len(seq))

\* the ends of a deque: the bucket_queue crate takes the candidate from one of
\* them, and which one is not the Frontier's to say
Ends(deque) == {1, Len(deque)}

\* Frontier::next calling dequeue_min where the code calls dequeue_max
next_dequeue_min(pq) ==
    IF DOMAIN pq = {} THEN {}
    ELSE LET waste == min_waste(pq)
             bucket == pq[waste]
             permutations == min_priority(bucket)
             deque == bucket[permutations]
         IN  {[item |-> deque[i],
               queue |-> LET d == RemoveAt(deque, i)
                             b == IF d = <<>> THEN without(bucket, permutations)
                                  ELSE with(bucket, permutations, d)
                         IN  IF DOMAIN b = {} THEN without(pq, waste)
                             ELSE with(pq, waste, b)] : i \in Ends(deque)}

\* Frontier::next: the outcomes Some(item) with the queue left; {} stands for None
next(pq) ==
    IF DOMAIN pq = {} THEN {}
    ELSE LET waste == min_waste(pq)
             bucket == pq[waste]
             permutations == max_priority(bucket)
             deque == bucket[permutations]
         IN  {[item |-> deque[i],
               queue |-> LET d == RemoveAt(deque, i)
                             b == IF d = <<>> THEN without(bucket, permutations)
                                  ELSE with(bucket, permutations, d)
                         IN  IF DOMAIN b = {} THEN without(pq, waste)
                             ELSE with(pq, waste, b)] : i \in Ends(deque)}

\* Frontier::add for each candidate of a sequence, in order
RECURSIVE add_all(_, _, _)
add_all(pq, candidates, nn) ==
    IF candidates = <<>> THEN pq
    ELSE add_all(add(pq, Head(candidates), nn), Tail(candidates), nn)

\* the (waste, permutations) pairs that have a deque
Buckets(pq) == UNION {{<<w, k>> : k \in DOMAIN pq[w]} : w \in DOMAIN pq}

\* the candidates a frontier holds
Held(pq) ==
    UNION {{pq[b[1]][b[2]][i] : i \in 1 .. Len(pq[b[1]][b[2]])} : b \in Buckets(pq)}

\* how many times a frontier holds candidate c
RECURSIVE CountIn(_, _, _)
CountIn(pq, S, c) ==
    IF S = {} THEN 0
    ELSE LET b == CHOOSE x \in S : TRUE
             deque == pq[b[1]][b[2]]
         IN  Cardinality({i \in 1 .. Len(deque) : deque[i] = c})
             + CountIn(pq, S \ {b}, c)

HeldCount(pq, c) == CountIn(pq, Buckets(pq), c)

\* Frontier::len
RECURSIVE LenOver(_, _)
LenOver(pq, S) ==
    IF S = {} THEN 0
    ELSE LET b == CHOOSE x \in S : TRUE
         IN  Len(pq[b[1]][b[2]]) + LenOver(pq, S \ {b})

len(pq) == LenOver(pq, Buckets(pq))

(***************************************************************************)
(* The driver loop: seed, then remove the best, expand it with the ceiling *)
(* n!, insert every child, until a candidate with n! permutations leaves.  *)
(***************************************************************************)
InitDriver ==
    /\ n \in Ns
    /\ priority_queue = add(EmptyQueue, seed(n), n)
    /\ removed = None
    /\ found = FALSE
    /\ exhausted = FALSE
    /\ walker = seed(n)
    /\ via = None

\* One iteration of the loop.
DriverStep ==
    /\ ~found /\ ~exhausted
    /\ IF next(priority_queue) = {}
       THEN /\ exhausted' = TRUE
            /\ removed' = None
            /\ UNCHANGED <<priority_queue, found>>
       ELSE /\ min_waste(priority_queue) <= MaxWaste
            /\ \E r \in next(priority_queue) :
                  /\ removed' = Some(r.item)
                  /\ IF number_of_permutations(r.item) = factorial(n)
                     THEN /\ found' = TRUE
                          /\ priority_queue' = r.queue
                     ELSE /\ found' = FALSE
                          /\ \E children \in {expand(r.item, factorial(n), n)} :
                                 priority_queue' = add_all(r.queue, children, n)
            /\ UNCHANGED exhausted
    /\ UNCHANGED <<n, walker, via>>

\* One Candidate::expand_one step of the walker, as Candidate::expand makes it
\* for one of its symbols, with any ceiling handed to expand.  The walk is
\* followed while the waste stays within MaxWaste, and one step further from
\* the states of the shortest superpermutation on 4 symbols.
Walk ==
    /\ \E upper_bound \in Ceilings(n), symbol \in expand_symbols(walker, n) :
          LET child == expand_one(walker, symbol,
                                  number_of_permutations(walker) = upper_bound, n)
          IN  /\ \/ child.wasted_symbols <= MaxWaste
                 \/ n = 4 /\ walker \in Lineage
              /\ walker' = child
              /\ via' = Some([parent |-> walker, symbol |-> symbol,
                              upper_bound |-> upper_bound,
                              same_upper_bound |->
                                  \/ via = None
                                  \/ /\ via[1].same_upper_bound
                                     /\ via[1].upper_bound = upper_bound])
    /\ UNCHANGED <<n, priority_queue, removed, found, exhausted>>

NextDriver ==
    \/ DriverStep /\ UNCHANGED boundsVars
    \/ Walk /\ UNCHANGED boundsVars

\* The ledger is not run beside the search.
IdleBounds == InitBounds /\ overflow_checks = TRUE

InitSearch == InitDriver /\ IdleBounds

SpecDriver == InitSearch /\ [][NextDriver]_vars

\* The loop is the program's only thread: it always takes its next iteration.
SpecDriverFair == SpecDriver /\ WF_vars(DriverStep /\ UNCHANGED boundsVars)

(***************************************************************************)
(* The states reachable from Candidate::seed(n) by expand steps.           *)
(***************************************************************************)
InitExpand ==
    /\ n \in WalkNs
    /\ priority_queue = EmptyQueue
    /\ removed = None
    /\ found = FALSE
    /\ exhausted = FALSE
    /\ walker = seed(n)
    /\ via = None

NextExpand == Walk /\ UNCHANGED boundsVars

InitWalk == InitExpand /\ IdleBounds

SpecExpand == InitWalk /\ [][NextExpand]_vars

(***************************************************************************)
(* The frontier fed arbitrary candidates (n = 3) and emptied in any order. *)
(***************************************************************************)
\* The candidates handed to Frontier::add: estimates 0..2, counts 1..3.
Pool ==
    {[permutations_seen |-> seen, tail_of_string |-> tail, wasted_symbols |-> w] :
        seen \in {{0}, {0, 3}, {0, 3, 4}}, tail \in {<<1>>, <<1, 2>>}, w \in {0, 1}}

InitFrontier ==
    /\ n = 3
    /\ priority_queue = EmptyQueue
    /\ removed = None
    /\ found = FALSE
    /\ exhausted = FALSE
    /\ walker = seed(n)
    /\ via = None

\* Frontier::add(candidate, n)
Add(candidate) ==
    /\ len(priority_queue) < MaxHeld
    /\ priority_queue' = add(priority_queue, candidate, n)
    /\ UNCHANGED <<n, removed, found, exhausted, walker, via>>

\* Frontier::next()
Next ==
    /\ IF next(priority_queue) = {}
       THEN removed' = None /\ UNCHANGED priority_queue
       ELSE \E r \in next(priority_queue) :
               removed' = Some(r.item) /\ priority_queue' = r.queue
    /\ UNCHANGED <<n, found, exhausted, walker, via>>

NextFrontier ==
    \/ \E candidate \in Pool : Add(candidate) /\ UNCHANGED boundsVars
    \/ Next /\ UNCHANGED boundsVars

InitHeld == InitFrontier /\ IdleBounds

SpecFrontier == InitHeld /\ [][NextFrontier]_vars

(***************************************************************************)
(* Claims about Frontier, under SpecFrontier.                              *)
(***************************************************************************)

\* C1: after any sequence of add and next calls, next on a non-empty frontier
\* removes and returns a held candidate whose total_waste(n) is the minimum over
\* the held candidates and whose number of permutations is the maximum among the
\* held candidates with that minimum.
C1_NextReturnsBest ==
    [][len(priority_queue') < len(priority_queue) =>
          /\ removed' # None
          /\ LET best == removed'[1]
                 held == Held(priority_queue)
             IN  /\ best \in held
                 /\ \A c \in held :
                       /\ total_waste(best, n) <= total_waste(c, n)
                       /\ total_waste(c, n) = total_waste(best, n) =>
                             number_of_permutations(c) <= number_of_permutations(best)
                 /\ \A c \in held :
                       HeldCount(priority_queue', c) =
                           HeldCount(priority_queue, c) - (IF c = best THEN 1 ELSE 0)]_vars

\* C1's case: a candidate has left a frontier that still holds one of the same
\* estimate with fewer permutations and one of a larger estimate with more.
C1_Witness ==
    /\ removed # None
    /\ len(priority_queue) = MaxHeld - 1
    /\ \E c, d \in Held(priority_queue) :
          /\ total_waste(c, n) = total_waste(removed[1], n)
          /\ number_of_permutations(c) < number_of_permutations(removed[1])
          /\ total_waste(d, n) > total_waste(removed[1], n)
          /\ number_of_permutations(d) > number_of_permutations(removed[1])

(***************************************************************************)
(* Claims about the driver loop, under SpecDriver and SpecDriverFair.      *)
(***************************************************************************)

\* C2: the first removed candidate with n! permutations has wasted_symbols less
\* than or equal to those of every candidate with n! permutations reachable from
\* seed(n) by expand steps (n in Ns).
C2_FirstTerminalIsOptimal ==
    (found /\ number_of_permutations(walker) = factorial(n)) =>
        removed[1].wasted_symbols <= walker.wasted_symbols

\* C2's case: the loop has ended for n = 3 and the walker has reached a
\* candidate with 3! permutations that wasted more.
C2_Witness ==
    /\ found /\ n = 3
    /\ number_of_permutations(removed[1]) = factorial(n)
    /\ number_of_permutations(walker) = factorial(n)
    /\ walker.wasted_symbols > removed[1].wasted_symbols

\* C9: next never finds the frontier empty before a candidate with n!
\* permutations has been removed.
C9_NeverEmptyBeforeTerminal ==
    /\ ~exhausted
    /\ ~found => next(priority_queue) # {}

\* C9's case: for n = 3 the loop has removed and expanded candidates, the last
\* one with waste, and has not ended.
C9_Witness ==
    /\ n = 3 /\ ~found
    /\ removed # None
    /\ removed[1].wasted_symbols > 0

\* C10: the loop eventually removes a candidate with n! permutations.
C10_Terminates == <>found

\* C10's case: the loop has ended for n = 3 on a candidate with 3! permutations.
C10_Witness ==
    /\ found /\ n = 3
    /\ number_of_permutations(removed[1]) = 6
    /\ walker = seed(n)

(***************************************************************************)
(* Claims about Candidate::expand, under SpecExpand.                       *)
(***************************************************************************)

\* C3: every child c of every reachable p, with any ceiling, has
\* c.wasted_symbols >= p.wasted_symbols and c.permutations_seen a superset of
\* p.permutations_seen.
C3_WasteAndCoverageMonotone ==
    [][/\ walker'.wasted_symbols >= walker.wasted_symbols
       /\ walker.permutations_seen \subseteq walker'.permutations_seen]_vars

\* C3's case: a child that covers a new permutation, of a parent that has both
\* wasted symbols and several permutations.
C3_Witness ==
    /\ via # None
    /\ via[1].parent.wasted_symbols > 0
    /\ number_of_permutations(via[1].parent) > 2
    /\ number_of_permutations(walker) > number_of_permutations(via[1].parent)

\* C11: every state reached from seed(n) by expand steps, whatever the
\* ceilings, has a tail of at most n - 1 symbols.
C11_TailAtMostNMinus1 == Len(walker.tail_of_string) <= n - 1

\* a full tail made by build_tail from a full tail and a symbol that was not in
\* it: the head had to give its first symbol up
C11_Witness ==
    /\ via # None
    /\ Len(via[1].parent.tail_of_string) = n - 1
    /\ position(via[1].parent.tail_of_string, via[1].symbol) = <<>>
    /\ Len(walker.tail_of_string) = n - 1
    /\ n = 4

\* C12: expand hands back exactly n - 1 children of every reached state: one
\* for each symbol of 0 .. n-1 other than the last symbol of the state's tail,
\* in the order of the symbols, and none for that last symbol.
C12_OneChildPerOtherSymbol ==
    \A upper_bound \in Ceilings(n) :
        LET children == expand(walker, upper_bound, n)
            last_symbol == walker.tail_of_string[Len(walker.tail_of_string)]
            at_upper_bound == number_of_permutations(walker) = upper_bound
        IN  /\ Len(children) = n - 1
            /\ \A i \in 1 .. n - 1 :
                  children[i] = expand_one(walker,
                                           IF i - 1 < last_symbol THEN i - 1 ELSE i,
                                           at_upper_bound, n)

\* a state that is one of the three children of its parent (n = 4), the symbol
\* left out being neither the least nor the greatest
C12_Witness ==
    /\ via # None
    /\ n = 4
    /\ via[1].parent.tail_of_string[Len(via[1].parent.tail_of_string)] \in {1, 2}
    /\ Len(expand(via[1].parent, via[1].upper_bound, n)) = 3
    /\ \E i \in 1 .. 3 : expand(via[1].parent, via[1].upper_bound, n)[i] = walker

\* C13: every state reached from seed(n) by expand steps that has all n!
\* permutations has total_waste(n) equal to its wasted_symbols.
C13_TerminalEstimateIsWaste ==
    number_of_permutations(walker) = factorial(n)
        => total_waste(walker, n) = walker.wasted_symbols

\* C13, amended: a state that got its n!-th permutation from the expand step
\* that made it has a tail of n - 1 symbols, a future_waste of 0 and a
\* total_waste(n) equal to its wasted_symbols.
C13_NewlyTerminalEstimateIsWaste ==
    (/\ via # None
     /\ number_of_permutations(walker) = factorial(n)
     /\ number_of_permutations(via[1].parent) < factorial(n))
        => /\ Len(walker.tail_of_string) = n - 1
           /\ future_waste(walker, n) = 0
           /\ total_waste(walker, n) = walker.wasted_symbols

\* the last step of the shortest superpermutation on 4 symbols: 23 permutations
\* before it, 24 after it
C13_Witness ==
    /\ via # None
    /\ n = 4
    /\ number_of_permutations(via[1].parent) = 23
    /\ number_of_permutations(walker) = 24
    /\ walker.wasted_symbols = 6

\* C14: when the parent's tail and the new tail both have n - 1 symbols, the
\* symbol is not the first of the parent's tail, the parent's number of
\* permutations is not the ceiling and the id of the parent's tail followed by
\* the symbol is not among the parent's permutations, the child has the
\* parent's permutations and that id (one more), the parent's wasted_symbols,
\* and the parent's tail without its first symbol, followed by the symbol.
C14_NewPermutationChild ==
    via # None =>
        LET parent == via[1].parent
            symbol == via[1].symbol
            id == permutation_id(parent.tail_of_string, symbol)
        IN  (/\ Len(parent.tail_of_string) = n - 1
             /\ Len(build_tail(parent, symbol, n)) = n - 1
             /\ symbol # parent.tail_of_string[1]
             /\ number_of_permutations(parent) # via[1].upper_bound
             /\ id \notin parent.permutations_seen)
                => /\ walker.permutations_seen = parent.permutations_seen \cup {id}
                   /\ number_of_permutations(walker)
                          = number_of_permutations(parent) + 1
                   /\ walker.wasted_symbols = parent.wasted_symbols
                   /\ walker.tail_of_string
                          = Tail(parent.tail_of_string) \o <<symbol>>

\* a step for n = 4 from a parent with a full tail, a wasted symbol and three
\* permutations to a child with a fourth permutation
C14_Witness ==
    /\ via # None
    /\ n = 4
    /\ via[1].parent.wasted_symbols = 1
    /\ number_of_permutations(via[1].parent) = 3
    /\ via[1].upper_bound = factorial(n)
    /\ Len(via[1].parent.tail_of_string) = 3
    /\ number_of_permutations(walker) = 4
    /\ walker.wasted_symbols = 1

\* the conditions C15 names for a child of c by symbol under upper_bound: both
\* tails full, the symbol not the first of c's tail, c not at the ceiling, the
\* id of c's tail followed by the symbol seen, and the id of the new tail
\* followed by the symbol missing from it seen as well
C15_Conditions(c, symbol, upper_bound) ==
    LET tail_of_string == build_tail(c, symbol, n)
    IN  /\ Len(c.tail_of_string) = n - 1
        /\ Len(tail_of_string) = n - 1
        /\ symbol # c.tail_of_string[1]
        /\ number_of_permutations(c) # upper_bound
        /\ permutation_id(c.tail_of_string, symbol) \in c.permutations_seen
        /\ \E missing \in 0 .. n - 1 :
              /\ \A i \in 1 .. Len(tail_of_string) : tail_of_string[i] # missing
              /\ permutation_id(tail_of_string, missing) \in c.permutations_seen

\* C15: a child made by expand has the parent's wasted_symbols + 2 exactly
\* when those conditions hold; every other child with the parent's
\* permutations has the parent's wasted_symbols + 1.
C15_PenaltyTwoExactlyWhen ==
    \A upper_bound \in Ceilings(n), symbol \in expand_symbols(walker, n) :
        LET child == expand_one(walker, symbol,
                                number_of_permutations(walker) = upper_bound, n)
        IN  /\ child.wasted_symbols = walker.wasted_symbols + 2
                <=> C15_Conditions(walker, symbol, upper_bound)
            /\ (/\ ~C15_Conditions(walker, symbol, upper_bound)
                /\ child.permutations_seen = walker.permutations_seen)
                   => child.wasted_symbols = walker.wasted_symbols + 1

\* an expand step that cost two symbols (n = 4)
C15_Witness ==
    /\ via # None
    /\ n = 4
    /\ walker.wasted_symbols = via[1].parent.wasted_symbols + 2
    /\ C15_Conditions(via[1].parent, via[1].symbol, via[1].upper_bound)

\* C16: future_waste never overestimates: every descendant of a reached state
\* that has a tail of n - 1 symbols has at least the state's wasted_symbols
\* plus the state's future_waste.
C16_FutureWasteAdmissible ==
    \A d \in descendants(walker, MaxDepth, n) :
        Len(d.tail_of_string) = n - 1
            => d.wasted_symbols >= walker.wasted_symbols + future_waste(walker, n)

\* a state made by expand whose tail is two symbols short (n = 5), and a
\* descendant of it with a full tail that has wasted exactly two symbols more
C16_Witness ==
    /\ via # None
    /\ n = 5
    /\ future_waste(walker, n) = 2
    /\ \E d \in descendants(walker, MaxDepth, n) :
          /\ Len(d.tail_of_string) = n - 1
          /\ d.wasted_symbols = walker.wasted_symbols + 2

(***************************************************************************)
(* A claim about the estimates along the loop, under SpecDriver.           *)
(***************************************************************************)
\* The states of the shortest superpermutation on 4 symbols and their
\* descendants within MaxDepth steps: tails of 2 and of 3 symbols.
Family4 == Lineage \cup UNION {descendants(p, MaxDepth, 4) : p \in Lineage}

\* no child of a state of Family4 has a lower total_waste than the state
ParentToChild4 ==
    \A p \in Family4 : \A child \in descendants(p, 1, 4) :
        total_waste(child, 4) >= total_waste(p, 4)

\* C17: total_waste never goes down from a parent to a child, so along the
\* loop neither the frontier's min_waste nor the total_waste of the removed
\* candidates ever goes down.
C17_EstimatesNonDecreasing ==
    [][/\ ParentToChild4
       /\ total_waste(walker', n) >= total_waste(walker, n)
       /\ removed' # None =>
             \A i \in 1 .. n - 1 :
                 total_waste(expand(removed'[1], factorial(n), n)[i], n)
                     >= total_waste(removed'[1], n)
       /\ (removed # None /\ removed' # None) =>
             total_waste(removed'[1], n) >= total_waste(removed[1], n)
       /\ (priority_queue # EmptyQueue /\ priority_queue' # EmptyQueue) =>
             min_waste(priority_queue') >= min_waste(priority_queue)]_vars

\* the loop has gone from candidates of estimate 0 to one of estimate 1 (n = 3),
\* and what the frontier holds starts at estimate 1
C17_Witness ==
    /\ n = 3
    /\ removed # None
    /\ total_waste(removed[1], n) = 1
    /\ priority_queue # EmptyQueue
    /\ min_waste(priority_queue) = 1
    /\ walker.wasted_symbols = 2

(***************************************************************************)
(* More claims about Candidate::expand, under SpecExpand.                  *)
(***************************************************************************)
\* pairwise distinct symbols of 0 .. nn-1
distinct_symbols(s, nn) ==
    /\ \A i \in 1 .. Len(s) : s[i] \in 0 .. nn - 1
    /\ \A i, j \in 1 .. Len(s) : i # j => s[i] # s[j]

\* what Lehmer::from_permutation is meant for: all nn symbols, each once
is_permutation(s, nn) == Len(s) = nn /\ distinct_symbols(s, nn)

\* C18: every state reached from seed(n) has a tail that is not empty and is
\* made of pairwise distinct symbols of 0 .. n-1; so expand finds a last
\* symbol, and the two places that compute a permutation id (expand_one for
\* the parent's tail followed by the symbol, seen_next_tail_as_well for the
\* new tail followed by its absent symbol) hand over a permutation of 0 .. n-1.
C18_TailsAndIdsWellFormed ==
    /\ walker.tail_of_string # <<>>
    /\ distinct_symbols(walker.tail_of_string, n)
    /\ \A symbol \in expand_symbols(walker, n) :
          LET tail_of_string == build_tail(walker, symbol, n)
              absent == {s \in 0 .. n - 1 :
                            \A i \in 1 .. Len(tail_of_string) : tail_of_string[i] # s}
          IN  (/\ ~less_than_full(walker.tail_of_string, n)
               /\ ~less_than_full(tail_of_string, n)
               /\ ~tail_starts_with(walker, symbol))
                  => /\ is_permutation(append(walker.tail_of_string, symbol), n)
                     /\ \A s \in absent : is_permutation(append(tail_of_string, s), n)

\* a child (n = 4) for which both ids were computed: the first was seen, the
\* second was not, and one symbol was wasted
C18_Witness ==
    /\ via # None
    /\ n = 4
    /\ ~less_than_full(via[1].parent.tail_of_string, n)
    /\ ~less_than_full(walker.tail_of_string, n)
    /\ ~tail_starts_with(via[1].parent, via[1].symbol)
    /\ number_of_permutations(via[1].parent) # via[1].upper_bound
    /\ permutation_id(via[1].parent.tail_of_string, via[1].symbol)
           \in via[1].parent.permutations_seen
    /\ ~seen_next_tail_as_well(via[1].parent, walker.tail_of_string, n)
    /\ walker.wasted_symbols = via[1].parent.wasted_symbols + 1

\* C19: when every expand call from seed(n) down to a state was given the same
\* ceiling c >= 1, the state has at most c permutations; a child of a parent
\* that has c permutations is a wasted-symbol child.
C19_CeilingCapsCoverage ==
    (/\ via # None
     /\ via[1].same_upper_bound
     /\ via[1].upper_bound >= 1)
        => /\ number_of_permutations(walker) <= via[1].upper_bound
           /\ number_of_permutations(via[1].parent) = via[1].upper_bound
                 => /\ walker.permutations_seen = via[1].parent.permutations_seen
                    /\ walker.wasted_symbols > via[1].parent.wasted_symbols

\* a lineage under the ceiling 2 (n = 4): from a parent with 2 permutations,
\* expand makes a wasted-symbol child where it would have found a third
C19_Witness ==
    /\ via # None
    /\ n = 4
    /\ via[1].same_upper_bound
    /\ via[1].upper_bound = 2
    /\ number_of_permutations(via[1].parent) = 2
    /\ number_of_permutations(walker) = 2
    /\ ~less_than_full(via[1].parent.tail_of_string, n)
    /\ ~less_than_full(walker.tail_of_string, n)
    /\ ~tail_starts_with(via[1].parent, via[1].symbol)
    /\ permutation_id(via[1].parent.tail_of_string, via[1].symbol)
           \notin via[1].parent.permutations_seen

(***************************************************************************)
(* One more claim about Bounds, under SpecBounds, stated like C4 for the   *)
(* build with overflow checks.                                             *)
(***************************************************************************)
\* C20: after any sequence of update calls on a fresh ledger, at every tracked
\* index the stored upper bound is greater than or equal to the stored lower
\* bound.
C20_UpperAtLeastLower ==
    (overflow_checks /\ call.ret # "panic") =>
        \A i \in Tracked : upperBound(i) >= lowerBound(i)

====
